---- MODULE Spec2Model ----
(***************************************************************************)
(* Model of taskun_r08.py: the replay engine (run_playback, run as a child *)
(* process), the supervising menu loop (_minimal_menu) that launches,      *)
(* monitors and terminates it, the stop file and the signals that connect  *)
(* the two, and the device reset procedure (_reset_cy8ckit_device).        *)
(***************************************************************************)
EXTENDS Integers, Sequences, FiniteSets, TLC

(* ---- program constants ------------------------------------------------ *)
ChunkSize == 60
LatchesPerRequest == 30
StopCheckEvery == 100
TimeoutLimit == 10
EscalationPolls == 50
WindowSize == 8
DisplayLines == 8
QueueLimit == 32

PingByte == 255
ResetByte == 0
RequestByte == 15
StartRecord == <<1, 1, 2, 1, 0, 1, 0>>

(* ---- bounds ----------------------------------------------------------- *)
\* largest recording, in bytes, that the engine is run on
MaxFileSize == 121

\* bytes the device may send that are neither 0xFF nor 0x0F
UnexpectedBytes == {0, 254}

(* ---- state ------------------------------------------------------------ *)
VARIABLES
    stop_file,       \* STOP_FILE exists
    sup_pc,          \* position of _minimal_menu
    sup_shutdown,    \* shutdown_requested in the supervising process
    polls,           \* iterations done of "for _ in range(50)"
    esc,             \* what the supervisor saw and did about the unit, in order
    resets,          \* invocations of _reset_cy8ckit_device since the last launch
    u_pc,            \* position of the replay unit (module start-up + run_playback)
    unit_shutdown,   \* shutdown_requested in the replay unit
    ser,             \* run_playback's serial handle is open
    f_open,          \* run_playback's recording file is open
    fileSize,        \* length of the recording in bytes
    cursor,          \* f.tell()
    latches,         \* latches
    extra,           \* extra
    timeout_count,   \* run_playback.timeout_count
    outcome,         \* how the session ended
    cmd,             \* cmd: what the last ser.read() of the streaming loop returned
    rser,            \* _reset_cy8ckit_device's serial handle is open
    ulog,            \* what the unit did, in order (opens, device writes, requests, summary, closes)
    cancelAge,       \* reads completed in the streaming loop while a cancellation was pending
                     \* (kept for the engine run on its own, where the cancellation
                     \* comes from outside)
    checkedAt,       \* value of latches at the last call of check_stop_file in the loop
    menu_n,          \* len(menu_items)
    idx,             \* idx: the selected item
    current_start_idx,   \* _show_oled_menu.current_start_idx
    oled,            \* the last update sent to the display
    setup_input,     \* what ended the wait loop of the setup screen
    events,          \* _JoystickReader.events
    fd_open,         \* _JoystickReader.fd is not None
    j_pc,            \* position of the joystick thread
    raw,             \* button / axis events decoded by the joystick thread so far
    pending_put,     \* the event name _put was called with
    accepted,        \* the events put into the queue, in order
    got              \* the events returned by get_event, in order

menuVars == <<menu_n, idx, current_start_idx, oled, setup_input>>
joyVars  == <<events, fd_open, j_pc, raw, pending_put, accepted, got>>
supVars  == <<sup_pc, sup_shutdown, polls, esc, menuVars, joyVars>>
unitData == <<fileSize, cursor, latches, extra, timeout_count, outcome, cmd, checkedAt>>
unitVars == <<u_pc, unit_shutdown, ser, f_open, rser, ulog, cancelAge>>
vars == <<stop_file, sup_pc, sup_shutdown, polls, esc, resets, u_pc, unit_shutdown,
          ser, f_open, fileSize, cursor, latches, extra, timeout_count, outcome,
          cmd, rser, ulog, cancelAge, checkedAt, menu_n, idx, current_start_idx, oled,
          setup_input, events, fd_open, j_pc, raw, pending_put, accepted, got>>

(* ---- helpers ---------------------------------------------------------- *)
Min(a, b) == IF a < b THEN a ELSE b

Max(a, b) == IF a > b THEN a ELSE b

\* an update of the display: a full redraw of the window (selection, first
\* item shown), a move of the selection marker (old line, new line), a
\* line-by-line update (old index, new index) or a status screen
Oled(kind, a, b) == [kind |-> kind, a |-> a, b |-> b]
StatusScreen == Oled("status", 0, 0)

\* NeedFullRedraw asking for a full redraw on every call
NeedFullRedraw_Always(i, old, start) == TRUE

\* _show_oled_menu: the paging test; old is <<>> for old_idx = None and
\* <<old_idx>> otherwise
NeedFullRedraw(i, old, start) == old = <<>> \/ i < start \/ i >= start + WindowSize

\* PageStart that pages down only: a selection above the window leaves
\* the window where it is
PageStart_NoPageUp(n, i, old, start) ==
    IF n = 0 \/ old = <<>> THEN start
    ELSE IF i >= start + WindowSize
         THEN IF i >= n - WindowSize THEN Max(0, n - WindowSize) ELSE Max(0, i - 1)
    ELSE start

\* _show_oled_menu: current_start_idx after the call
PageStart(n, i, old, start) ==
    IF n = 0 \/ old = <<>> THEN start
    ELSE IF i < start
         THEN IF i < WindowSize THEN 0 ELSE Max(0, i - (WindowSize - 2))
    ELSE IF i >= start + WindowSize
         THEN IF i >= n - WindowSize THEN Max(0, n - WindowSize) ELSE Max(0, i - 1)
    ELSE start

\* _show_oled_menu: what is sent to the display
OledUpdate(n, i, old, start) ==
    IF n = 0 THEN StatusScreen
    ELSE LET start_idx == PageStart(n, i, old, start) IN
         IF NeedFullRedraw(i, old, start)
         THEN Oled("full", i, start_idx)
         ELSE LET old_line == old[1] - start_idx + 1
                  new_line == i - start_idx + 1
              IN IF /\ 1 <= old_line /\ old_line <= DisplayLines
                    /\ 1 <= new_line /\ new_line <= DisplayLines
                 THEN Oled("marker", old_line, new_line)
                 ELSE Oled("lines", old[1], i)

\* the i-th byte of a recording
MovieByte(i) == ((i - 1) % 255) + 1

\* the bytes of a recording of the given size (content is never zero, so
\* that padding can be told from data)
Movie(size) == [i \in 1..size |-> MovieByte(i)]

\* FRead starting one byte late: a byte is skipped before every read
FRead_SkipByte(n) == SubSeq(Movie(fileSize), cursor + 2, Min(cursor + n + 1, fileSize))

\* f.read(n): the bytes returned at the current cursor
FRead(n) == SubSeq(Movie(fileSize), cursor + 1, Min(cursor + n, fileSize))

\* bytes(k)
Zeros(k) == [i \in 1..k |-> 0]

Ev(e, d) == [ev |-> e, data |-> d]

\* the smallest number of answered requests after which latches % 100 = 0 again
PollInterval ==
    CHOOSE k \in 1..StopCheckEvery :
        /\ (k * LatchesPerRequest) % StopCheckEvery = 0
        /\ \A j \in 1..(k - 1) : (j * LatchesPerRequest) % StopCheckEvery # 0

UnitAlive == u_pc \notin {"none", "exited", "killed"}
Streaming == u_pc \in {"loop", "read"}

\* the writes to the device made by the unit, in order
IsWrite(e) == e.ev = "write"
Wire == SelectSeq(ulog, IsWrite)

(* ---- the replay unit: module start-up --------------------------------- *)
\* signal.signal(SIGINT/SIGTERM, signal_handler)
U_InstallHandlers ==
    /\ u_pc = "boot"
    /\ u_pc' = "rm_stop"
    /\ UNCHANGED <<stop_file, supVars, resets, unit_shutdown, ser, f_open, rser,
                   ulog, cancelAge, unitData>>

\* os.remove(STOP_FILE) at start-up
U_RemoveStopFile ==
    /\ u_pc = "rm_stop"
    /\ stop_file' = FALSE
    /\ u_pc' = "open_ser"
    /\ UNCHANGED <<supVars, resets, unit_shutdown, ser, f_open, rser,
                   ulog, cancelAge, unitData>>

(* ---- the replay unit: run_playback ------------------------------------ *)
\* ser = serial.Serial(port, 2000000, timeout=0.5); on failure return 2
U_OpenSerial ==
    /\ u_pc = "open_ser"
    /\ \E ok \in BOOLEAN :
        IF ok
        THEN /\ ser' = TRUE
             /\ ulog' = Append(ulog, Ev("open_ser", <<>>))
             /\ u_pc' = "ping"
             /\ UNCHANGED outcome
        ELSE /\ outcome' = "SerialOpenFailed"
             /\ u_pc' = "returned"
             /\ UNCHANGED <<ser, ulog>>
    /\ UNCHANGED <<stop_file, supVars, resets, unit_shutdown, f_open, rser, cancelAge,
                   fileSize, cursor, latches, extra, timeout_count, cmd,
                   checkedAt>>

\* ser.write(b'\xFF')
U_Ping ==
    /\ u_pc = "ping"
    /\ ulog' = Append(ulog, Ev("write", <<PingByte>>))
    /\ u_pc' = "ping_read"
    /\ UNCHANGED <<stop_file, supVars, resets, unit_shutdown, ser, f_open, rser,
                   cancelAge, unitData>>

\* U_PingRead with the "return 2" left out: the failure is reported and the
\* session goes on
U_PingRead_NoReturn ==
    /\ u_pc = "ping_read"
    /\ \E data \in {<<PingByte>>, <<RequestByte>>, <<>>} \cup {<<b>> : b \in UnexpectedBytes} :
        /\ ulog' = Append(ulog, Ev("pong", data))
        /\ outcome' = IF data = <<PingByte>> THEN outcome ELSE "DeviceNotReady"
        /\ u_pc' = "open_file"
    /\ UNCHANGED <<stop_file, supVars, resets, unit_shutdown, ser, f_open, rser, cancelAge,
                   fileSize, cursor, latches, extra, timeout_count, cmd,
                   checkedAt>>

\* data = ser.read(); anything but b'\xFF' (or nothing) returns 2
U_PingRead ==
    /\ u_pc = "ping_read"
    /\ \E data \in {<<PingByte>>, <<RequestByte>>, <<>>} \cup {<<b>> : b \in UnexpectedBytes} :
        /\ ulog' = Append(ulog, Ev("pong", data))
        /\ IF data = <<PingByte>>
           THEN /\ u_pc' = "open_file"
                /\ UNCHANGED outcome
           ELSE /\ outcome' = "DeviceNotReady"
                /\ u_pc' = "returned"
    /\ UNCHANGED <<stop_file, supVars, resets, unit_shutdown, ser, f_open, rser, cancelAge,
                   fileSize, cursor, latches, extra, timeout_count, cmd,
                   checkedAt>>

\* U_OpenFile with the recording opened after the reset command instead of
\* before it: a failure to open is met when the device was already commanded
U_OpenFile_AfterReset ==
    /\ u_pc = "open_file"
    /\ \E res \in {"ok", "open", "seek"} :
        CASE res = "ok" ->
                /\ f_open' = TRUE
                /\ cursor' = 0
                /\ ulog' = Append(ulog, Ev("open_f", <<>>))
                /\ u_pc' = "cmd_reset"
                /\ UNCHANGED outcome
          [] res = "open" ->
                /\ ulog' = Append(ulog, Ev("write", <<ResetByte>>))
                /\ outcome' = "FileError"
                /\ u_pc' = "returned"
                /\ UNCHANGED <<f_open, cursor>>
          [] res = "seek" ->
                /\ f_open' = TRUE
                /\ ulog' = ulog \o <<Ev("write", <<ResetByte>>), Ev("open_f", <<>>)>>
                /\ outcome' = "FileError"
                /\ u_pc' = "returned"
                /\ UNCHANGED cursor
    /\ UNCHANGED <<stop_file, supVars, resets, unit_shutdown, ser, rser, cancelAge,
                   fileSize, latches, extra, timeout_count, cmd,
                   checkedAt>>

\* f = open(filename, "rb") / bz2.BZ2File; file_size = f.seek(0, 2); f.seek(0);
\* on an exception return 3.  "open": the open itself fails; "seek": the
\* file was opened and the size query raised (a bz2 file that does not
\* decompress).
U_OpenFile ==
    /\ u_pc = "open_file"
    /\ \E res \in {"ok", "open", "seek"} :
        CASE res = "ok" ->
                /\ f_open' = TRUE
                /\ cursor' = 0
                /\ ulog' = Append(ulog, Ev("open_f", <<>>))
                /\ u_pc' = "cmd_reset"
                /\ UNCHANGED outcome
          [] res = "open" ->
                /\ outcome' = "FileError"
                /\ u_pc' = "returned"
                /\ UNCHANGED <<f_open, cursor, ulog>>
          [] res = "seek" ->
                /\ f_open' = TRUE
                /\ ulog' = Append(ulog, Ev("open_f", <<>>))
                /\ outcome' = "FileError"
                /\ u_pc' = "returned"
                /\ UNCHANGED cursor
    /\ UNCHANGED <<stop_file, supVars, resets, unit_shutdown, ser, rser, cancelAge,
                   fileSize, latches, extra, timeout_count, cmd,
                   checkedAt>>

\* U_CmdReset with the reset command left out before the start record
U_CmdReset_NoWrite ==
    /\ u_pc = "cmd_reset"
    /\ u_pc' = "cmd_start"
    /\ UNCHANGED <<stop_file, supVars, resets, unit_shutdown, ser, f_open, rser, ulog,
                   cancelAge, unitData>>

\* ser.write(b'\x00'); time.sleep(0.1)
U_CmdReset ==
    /\ u_pc = "cmd_reset"
    /\ ulog' = Append(ulog, Ev("write", <<ResetByte>>))
    /\ u_pc' = "cmd_start"
    /\ UNCHANGED <<stop_file, supVars, resets, unit_shutdown, ser, f_open, rser,
                   cancelAge, unitData>>

\* U_CmdStart leaving a residual offset of one latch pair behind
U_CmdStart_Residual ==
    /\ u_pc = "cmd_start"
    /\ ulog' = Append(ulog, Ev("write", StartRecord))
    /\ latches' = 0
    /\ extra' = 1
    /\ u_pc' = "loop"
    /\ UNCHANGED <<stop_file, supVars, resets, unit_shutdown, ser, f_open, rser,
                   cancelAge, fileSize, cursor, timeout_count, outcome, cmd,
                   checkedAt>>

\* ser.write(b'\x01\x01\x02\x01\x00\x01\x00'); latches = 0; skip = 0; extra = 0
U_CmdStart ==
    /\ u_pc = "cmd_start"
    /\ ulog' = Append(ulog, Ev("write", StartRecord))
    /\ latches' = 0
    /\ extra' = 0
    /\ u_pc' = "loop"
    /\ UNCHANGED <<stop_file, supVars, resets, unit_shutdown, ser, f_open, rser,
                   cancelAge, fileSize, cursor, timeout_count, outcome, cmd,
                   checkedAt>>

\* while not shutdown_requested:
U_LoopTest ==
    /\ u_pc = "loop"
    /\ IF unit_shutdown
       THEN /\ outcome' = "Interrupted"
            /\ u_pc' = "summary"
       ELSE /\ u_pc' = "read"
            /\ UNCHANGED outcome
    /\ UNCHANGED <<stop_file, supVars, resets, unit_shutdown, ser, f_open, rser, ulog,
                   cancelAge, fileSize, cursor, latches, extra, timeout_count, cmd,
                   checkedAt>>

\* GaveUp with ">=" for ">": the session is given up one time-out early
GaveUp_OneEarly(count) == count >= TimeoutLimit

\* if run_playback.timeout_count > 10
GaveUp(count) == count > TimeoutLimit

\* IsRequest taking every byte received for a request
IsRequest_AnyByte(c) == c # <<>>

\* if cmd == b'\x0F'
IsRequest(c) == c = <<RequestByte>>

\* EndOfFile taking a short read for the end of the recording
EndOfFile_ShortRead(inputs) == Len(inputs) < ChunkSize

\* if not inputs
EndOfFile(inputs) == inputs = <<>>

\* Padded with the padding left out: a short read is sent as it is
Padded_NotAtAll(inputs) == inputs

\* if len(inputs) < 60: inputs = inputs + bytes(60 - len(inputs))
Padded(inputs) == inputs \o Zeros(ChunkSize - Len(inputs))

\* LatchesAfter counting every request, the one that meets the end of the
\* file too
LatchesAfter_EveryRequest(l, isReq, eof) == IF isReq THEN l + LatchesPerRequest ELSE l

\* latches = latches + 30, reached by a request that did not break at the
\* end of the file
LatchesAfter(l, isReq, eof) == IF isReq /\ ~eof THEN l + LatchesPerRequest ELSE l

\* One pass of the body of the streaming loop, from cmd = ser.read() to the
\* end of the iteration: time-out counting, answering a request from the
\* recording, the stop-file check and the shutdown test.
U_Read ==
    /\ u_pc = "read"
    /\ \E c \in {<<>>, <<RequestByte>>} \cup {<<b>> : b \in UnexpectedBytes} :
        LET pending == sup_pc = "off" /\ (stop_file \/ unit_shutdown)
            aged(o) == IF pending /\ o # "Interrupted"
                       THEN Min(cancelAge + 1, PollInterval + 1)
                       ELSE cancelAge
        IN
        /\ cmd' = c
        /\ IF c = <<>>
           THEN \* time-out: count it, give up after more than TimeoutLimit of them
             /\ timeout_count' = timeout_count + 1
             /\ IF GaveUp(timeout_count + 1)
                THEN LET position  == cursor               \* f.tell()
                         size      == fileSize             \* f.seek(0, 2)
                         atEnd     == size                 \* the cursor after it
                         remaining == fileSize - atEnd     \* f.seek(0, 2) - f.tell()
                     IN
                     /\ ulog' = Append(ulog, Ev("stopped", <<position, size, remaining>>))
                     /\ cursor' = atEnd
                     /\ outcome' = "DeviceError"
                     /\ u_pc' = "summary"
                ELSE /\ u_pc' = "loop"
                     /\ UNCHANGED <<cursor, outcome, ulog>>
             /\ cancelAge' = aged(outcome')
             /\ UNCHANGED <<stop_file, unit_shutdown, latches, extra, checkedAt>>
           ELSE
             LET isReq  == IsRequest(c)
                 want   == IF extra > 0 THEN ChunkSize - (extra * 2) ELSE ChunkSize
                 inputs == FRead(want)
                 eof    == isReq /\ extra = 0 /\ EndOfFile(inputs)
                 payload == IF extra > 0
                            THEN Zeros(extra * 2) \o inputs
                            ELSE Padded(inputs)
                 newLatches == LatchesAfter(latches, isReq, eof)
                 checked == newLatches % StopCheckEvery = 0     \* check_stop_file() is called
                 newShutdown == unit_shutdown \/ (checked /\ stop_file)
             IN
             /\ timeout_count' = 0
             /\ IF eof
                THEN \* end of file: nothing is written, the loop is left
                     /\ ulog' = Append(ulog, Ev("req", c))
                     /\ outcome' = "Completed"
                     /\ u_pc' = "summary"
                     /\ latches' = newLatches
                     /\ UNCHANGED <<stop_file, unit_shutdown, cursor, extra, checkedAt>>
                ELSE /\ IF isReq
                        THEN /\ ulog' = ulog \o <<Ev("req", c),
                                                   Ev("write", <<RequestByte>> \o payload)>>
                             /\ cursor' = cursor + Len(inputs)
                             /\ extra' = 0
                        ELSE UNCHANGED <<ulog, cursor, extra>>
                     /\ latches' = newLatches
                     /\ stop_file' = IF checked THEN FALSE ELSE stop_file
                     /\ checkedAt' = IF checked THEN newLatches ELSE checkedAt
                     /\ unit_shutdown' = newShutdown
                     /\ IF newShutdown
                        THEN /\ outcome' = "Interrupted"
                             /\ u_pc' = "summary"
                        ELSE /\ u_pc' = "loop"
                             /\ UNCHANGED outcome
             /\ cancelAge' = aged(outcome')
    /\ UNCHANGED <<supVars, resets, ser, f_open, rser, fileSize>>

\* the "device stopped requesting" test and the final summary.  Each
\* f.seek(0, 2) returns the size and leaves the cursor at the end of the
\* recording, so the f.tell() that follows it returns the size too.
U_Summary ==
    /\ u_pc = "summary"
    /\ LET size      == fileSize                 \* f.seek(0, 2)
           atEnd     == size                     \* the cursor after it
           expected  == size \div 2              \* f.seek(0, 2)//2
           remaining == (fileSize - atEnd) \div 2    \* (f.seek(0, 2) - f.tell())//2
       IN
       /\ ulog' = Append(ulog, Ev("summary", <<latches, expected, remaining>>))
       /\ cursor' = atEnd
    /\ u_pc' = "close_f"
    /\ UNCHANGED <<stop_file, supVars, resets, unit_shutdown, ser, f_open, rser, cancelAge,
                   fileSize, latches, extra, timeout_count, outcome, cmd,
                   checkedAt>>

\* U_CloseFile with the f.close() left out
U_CloseFile_Forgotten ==
    /\ u_pc = "close_f"
    /\ u_pc' = IF unit_shutdown THEN "final_reset" ELSE "wait_b"
    /\ UNCHANGED <<stop_file, supVars, resets, unit_shutdown, ser, f_open, rser, ulog,
                   cancelAge, unitData>>

\* f.close(); then "if not shutdown_requested" chooses the wait for button B
U_CloseFile ==
    /\ u_pc = "close_f"
    /\ f_open' = FALSE
    /\ ulog' = Append(ulog, Ev("close_f", <<>>))
    /\ u_pc' = IF unit_shutdown THEN "final_reset" ELSE "wait_b"
    /\ UNCHANGED <<stop_file, supVars, resets, unit_shutdown, ser, rser, cancelAge, unitData>>

\* the wait loop after a natural end, left because shutdown_requested is set
U_WaitShutdown ==
    /\ u_pc = "wait_b"
    /\ unit_shutdown
    /\ u_pc' = "final_reset"
    /\ UNCHANGED <<stop_file, supVars, resets, unit_shutdown, ser, f_open, rser, ulog,
                   cancelAge, unitData>>

\* ser.write(b'\x00'); time.sleep(0.1)
U_FinalReset ==
    /\ u_pc = "final_reset"
    /\ ulog' = Append(ulog, Ev("write", <<ResetByte>>))
    /\ u_pc' = "close_ser"
    /\ UNCHANGED <<stop_file, supVars, resets, unit_shutdown, ser, f_open, rser,
                   cancelAge, unitData>>

\* U_CloseSerial with the ser.close() left out before the reset procedure
U_CloseSerial_Forgotten ==
    /\ u_pc = "close_ser"
    /\ u_pc' = "reset_proc"
    /\ UNCHANGED <<stop_file, supVars, resets, unit_shutdown, ser, f_open, rser, ulog,
                   cancelAge, unitData>>

\* ser.close()
U_CloseSerial ==
    /\ u_pc = "close_ser"
    /\ ser' = FALSE
    /\ ulog' = Append(ulog, Ev("close_ser", <<>>))
    /\ u_pc' = "reset_proc"
    /\ UNCHANGED <<stop_file, supVars, resets, unit_shutdown, f_open, rser,
                   cancelAge, unitData>>

\* U_ResetProc without the try / except: a failure to open or to write
\* ends the process
U_ResetProc_Raises ==
    /\ u_pc = "reset_proc"
    /\ resets' = resets + 1
    /\ \E res \in {"ok", "open", "write"} :
        CASE res = "ok" ->
                /\ rser' = TRUE
                /\ ulog' = ulog \o <<Ev("reset_open", <<>>), Ev("write", <<ResetByte>>)>>
                /\ u_pc' = "reset_close"
          [] res = "open" ->
                /\ u_pc' = "killed"
                /\ UNCHANGED <<rser, ulog>>
          [] res = "write" ->
                /\ ulog' = Append(ulog, Ev("reset_open", <<>>))
                /\ u_pc' = "killed"
                /\ UNCHANGED rser
    /\ UNCHANGED <<stop_file, supVars, unit_shutdown, ser, f_open, cancelAge, unitData>>

\* _reset_cy8ckit_device(port): open the port and write 0x00.  "open": the
\* port cannot be opened; "write": it was opened and the write raised (the
\* handle goes with the function's frame); both print a warning and return
\* False
U_ResetProc ==
    /\ u_pc = "reset_proc"
    /\ resets' = resets + 1
    /\ \E res \in {"ok", "open", "write"} :
        CASE res = "ok" ->
                /\ rser' = TRUE
                /\ ulog' = ulog \o <<Ev("reset_open", <<>>), Ev("write", <<ResetByte>>)>>
                /\ u_pc' = "reset_close"
          [] res = "open" ->
                /\ ulog' = Append(ulog, Ev("reset_failed", <<>>))
                /\ u_pc' = "returned"
                /\ UNCHANGED rser
          [] res = "write" ->
                /\ ulog' = ulog \o <<Ev("reset_open", <<>>), Ev("reset_failed", <<>>)>>
                /\ u_pc' = "returned"
                /\ UNCHANGED rser
    /\ UNCHANGED <<stop_file, supVars, unit_shutdown, ser, f_open, cancelAge, unitData>>

\* time.sleep(0.1); ser.close(); return True
U_ResetClose ==
    /\ u_pc = "reset_close"
    /\ rser' = FALSE
    /\ ulog' = Append(ulog, Ev("reset_close", <<>>))
    /\ u_pc' = "returned"
    /\ UNCHANGED <<stop_file, supVars, resets, unit_shutdown, ser, f_open, cancelAge, unitData>>

\* sys.exit(exit_code): the process ends and its handles go with it
U_Exit ==
    /\ u_pc = "returned"
    /\ u_pc' = "exited"
    /\ ser' = FALSE
    /\ f_open' = FALSE
    /\ UNCHANGED <<stop_file, supVars, resets, unit_shutdown, rser, ulog, cancelAge, unitData>>

UnitNext ==
    \/ U_InstallHandlers \/ U_RemoveStopFile \/ U_OpenSerial \/ U_Ping \/ U_PingRead
    \/ U_OpenFile \/ U_CmdReset \/ U_CmdStart \/ U_LoopTest \/ U_Read \/ U_Summary
    \/ U_CloseFile \/ U_WaitShutdown \/ U_FinalReset \/ U_CloseSerial \/ U_ResetProc
    \/ U_ResetClose \/ U_Exit

(* ---- signals and human input reaching the unit ------------------------ *)
\* SIGINT or SIGTERM arriving at the unit: before the handlers are installed
\* it ends the process, afterwards signal_handler sets shutdown_requested
DeliverSignal ==
    IF u_pc = "boot"
    THEN /\ u_pc' = "killed"
         /\ UNCHANGED unit_shutdown
    ELSE /\ unit_shutdown' = (unit_shutdown \/ UnitAlive)
         /\ UNCHANGED u_pc

\* SIGKILL: the process ends where it is and its handles go with it
DeliverKill ==
    /\ u_pc' = IF UnitAlive THEN "killed" ELSE u_pc
    /\ ser' = FALSE
    /\ f_open' = FALSE
    /\ rser' = FALSE

\* button B, or key q / b, seen by the unit's wait loop
H_ButtonB ==
    /\ u_pc = "wait_b"
    /\ u_pc' = "final_reset"
    /\ UNCHANGED <<stop_file, supVars, resets, unit_shutdown, ser, f_open, rser, ulog,
                   cancelAge, unitData>>

(* ---- the engine run on its own from a shell --------------------------- *)
\* Ctrl+C, or a signal sent from another terminal
E_Signal ==
    /\ sup_pc = "off"
    /\ UnitAlive
    /\ DeliverSignal
    /\ UNCHANGED <<stop_file, supVars, resets, ser, f_open, rser, ulog, cancelAge, unitData>>

\* "touch /tmp/taskun_stop" in another terminal
E_Touch ==
    /\ sup_pc = "off"
    /\ UnitAlive
    /\ ~stop_file
    /\ stop_file' = TRUE
    /\ UNCHANGED <<supVars, resets, unitVars, unitData>>

InitUnitIdle ==
    /\ unit_shutdown = FALSE
    /\ ser = FALSE
    /\ f_open = FALSE
    /\ rser = FALSE
    /\ cursor = 0
    /\ latches = 0
    /\ extra = 0
    /\ timeout_count = 0
    /\ outcome = "none"
    /\ cmd = <<>>
    /\ checkedAt = 0
    /\ ulog = <<>>
    /\ cancelAge = 0
    /\ resets = 0

\* the joystick thread before it is started
InitJoyIdle ==
    /\ events = <<>>
    /\ fd_open = FALSE
    /\ j_pc = "off"
    /\ raw = 0
    /\ pending_put = "none"
    /\ accepted = <<>>
    /\ got = <<>>

\* no menu: the script was started with a port and a file name
InitNoMenu ==
    /\ menu_n = 0
    /\ idx = 0
    /\ current_start_idx = 0
    /\ oled = Oled("none", 0, 0)
    /\ setup_input = "none"

InitEngine ==
    /\ stop_file \in BOOLEAN
    /\ sup_pc = "off"
    /\ sup_shutdown = FALSE
    /\ polls = 0
    /\ esc = <<>>
    /\ u_pc = "boot"
    /\ fileSize \in 0..MaxFileSize
    /\ InitUnitIdle
    /\ InitNoMenu
    /\ InitJoyIdle

NextEngine == UnitNext \/ H_ButtonB \/ E_Signal \/ E_Touch

SpecEngine == InitEngine /\ [][NextEngine]_vars

(* ---- the engine playing a recording of many chunks -------------------- *)
\* size of the long recording, in bytes: four full chunks and one more byte
LongFileSize == 241

InitLong ==
    /\ stop_file \in BOOLEAN
    /\ sup_pc = "off"
    /\ sup_shutdown = FALSE
    /\ polls = 0
    /\ esc = <<>>
    /\ u_pc = "boot"
    /\ fileSize = LongFileSize
    /\ InitUnitIdle
    /\ InitNoMenu
    /\ InitJoyIdle

SpecLong == InitLong /\ [][NextEngine]_vars

(* ---- the supervisor: _minimal_menu ------------------------------------ *)
\* sizes of the recordings listed in the menu
MenuSizes == {0, ChunkSize + 1, MaxFileSize}

\* proc.poll() is not None
ProcExited == u_pc \in {"exited", "killed"}

\* the recordings listed in the menu, by their sizes, in the order shown
MenuFiles == <<0, ChunkSize + 1, MaxFileSize>>

\* Draw with a window that follows the selection: it starts at the
\* selected item whenever that item changed
Draw_FollowsSelection(i, old) ==
    /\ current_start_idx' = IF old = <<>> THEN current_start_idx ELSE i
    /\ oled' = OledUpdate(menu_n, i, old, current_start_idx)

\* draw(header, old_idx) with the selection at i
Draw(i, old) ==
    /\ current_start_idx' = PageStart(menu_n, i, old, current_start_idx)
    /\ oled' = OledUpdate(menu_n, i, old, current_start_idx)

\* w / k / 'up' in the menu
S_NavUp ==
    /\ sup_pc = "menu"
    /\ ~sup_shutdown
    /\ IF menu_n > 0
       THEN /\ idx' = (idx - 1) % menu_n
            /\ Draw(idx', <<idx>>)
       ELSE UNCHANGED <<idx, current_start_idx, oled>>
    /\ UNCHANGED <<stop_file, sup_pc, sup_shutdown, polls, esc, resets, unitVars, unitData,
                   menu_n, setup_input, joyVars>>

\* s / j / 'down' in the menu
S_NavDown ==
    /\ sup_pc = "menu"
    /\ ~sup_shutdown
    /\ IF menu_n > 0
       THEN /\ idx' = (idx + 1) % menu_n
            /\ Draw(idx', <<idx>>)
       ELSE UNCHANGED <<idx, current_start_idx, oled>>
    /\ UNCHANGED <<stop_file, sup_pc, sup_shutdown, polls, esc, resets, unitVars, unitData,
                   menu_n, setup_input, joyVars>>

\* "if shutdown_requested: return" at the top of the menu loop
S_MenuShutdown ==
    /\ sup_pc = "menu"
    /\ sup_shutdown
    /\ sup_pc' = "done"
    /\ UNCHANGED <<stop_file, sup_shutdown, polls, esc, resets, unitVars, unitData, menuVars, joyVars>>

\* S_Select without the test for an empty list
S_Select_NoEmptyTest ==
    /\ sup_pc = "menu"
    /\ ~sup_shutdown
    /\ sup_pc' = "setup"
    /\ oled' = StatusScreen
    /\ UNCHANGED <<stop_file, sup_shutdown, polls, esc, resets, unitVars, unitData,
                   menu_n, idx, current_start_idx, setup_input, joyVars>>

\* Enter / 'select' on a recording: the setup screen is shown
S_Select ==
    /\ sup_pc = "menu"
    /\ ~sup_shutdown
    /\ IF menu_n = 0
       THEN UNCHANGED <<sup_pc, oled>>                 \* "if not menu_items: continue"
       ELSE /\ sup_pc' = "setup"
            /\ oled' = StatusScreen                    \* _show_famicom_instructions()
    /\ UNCHANGED <<stop_file, sup_shutdown, polls, esc, resets, unitVars, unitData,
                   menu_n, idx, current_start_idx, setup_input, joyVars>>

\* key q in the menu
S_Quit ==
    /\ sup_pc = "menu"
    /\ ~sup_shutdown
    /\ sup_pc' = "done"
    /\ UNCHANGED <<stop_file, sup_shutdown, polls, esc, resets, unitVars, unitData, menuVars, joyVars>>

\* the wait loop of the setup screen: shutdown returns; 'stop' / q redraws
\* the menu and breaks, Enter / 'select' breaks; after the loop the
\* playback is launched
S_Setup ==
    /\ sup_pc = "setup"
    /\ IF sup_shutdown
       THEN /\ sup_pc' = "done"
            /\ UNCHANGED <<setup_input, current_start_idx, oled>>
       ELSE \E input \in {"cancel", "confirm"} :
               /\ setup_input' = input
               /\ IF input = "cancel"
                  THEN Draw(idx, <<>>)                 \* draw('Select option (w/s + Enter)')
                  ELSE UNCHANGED <<current_start_idx, oled>>
               /\ sup_pc' = "launch"
    /\ UNCHANGED <<stop_file, sup_shutdown, polls, esc, resets, unitVars, unitData,
                   menu_n, idx, joyVars>>

\* _launch_playback: remove a stale stop file, then Popen
S_Launch ==
    /\ sup_pc = "launch"
    /\ stop_file' = FALSE
    /\ esc' = <<>>
    /\ resets' = 0
    /\ polls' = 0
    /\ unit_shutdown' = FALSE
    /\ ser' = FALSE
    /\ f_open' = FALSE
    /\ rser' = FALSE
    /\ cursor' = 0
    /\ latches' = 0
    /\ extra' = 0
    /\ timeout_count' = 0
    /\ outcome' = "none"
    /\ cmd' = <<>>
    /\ checkedAt' = 0
    /\ ulog' = <<>>
    /\ cancelAge' = 0
    /\ setup_input' = "none"
    /\ \E ok \in BOOLEAN :
        IF ok
        THEN /\ u_pc' = "boot"
             /\ fileSize' = MenuFiles[idx + 1]         \* selected = menu_items[idx]
             /\ sup_pc' = "monitor"
             /\ oled' = StatusScreen                   \* "REPLAY STARTED:"
             /\ UNCHANGED current_start_idx
        ELSE /\ u_pc' = "none"
             /\ fileSize' = 0
             /\ sup_pc' = "launch_err"
             /\ Draw(idx, <<>>)                        \* draw(f'Error: {err}')
    /\ UNCHANGED <<sup_shutdown, menu_n, idx, joyVars>>

\* S_LaunchErr going back to the first item of the menu
S_LaunchErr_ResetsSelection ==
    /\ sup_pc = "launch_err"
    /\ resets' = resets + 1
    /\ \E ok \in BOOLEAN : esc' = Append(esc, IF ok THEN "reset" ELSE "reset_failed")
    /\ idx' = 0
    /\ Draw(idx', <<>>)
    /\ sup_pc' = "menu"
    /\ UNCHANGED <<stop_file, sup_shutdown, polls, unitVars, unitData,
                   menu_n, setup_input, joyVars>>

\* "if err:": _reset_cy8ckit_device(port), back to the menu
S_LaunchErr ==
    /\ sup_pc = "launch_err"
    /\ resets' = resets + 1
    /\ \E ok \in BOOLEAN : esc' = Append(esc, IF ok THEN "reset" ELSE "reset_failed")
    /\ Draw(idx, <<>>)                                 \* draw('Select option (w/s + Enter)')
    /\ sup_pc' = "menu"
    /\ UNCHANGED <<stop_file, sup_shutdown, polls, unitVars, unitData,
                   menu_n, idx, setup_input, joyVars>>

\* "while proc.poll() is None:"
S_MonTest ==
    /\ sup_pc = "monitor"
    /\ sup_pc' = IF ProcExited THEN "procwait" ELSE "mon_body"
    /\ UNCHANGED <<stop_file, sup_shutdown, polls, esc, resets, unitVars, unitData, menuVars, joyVars>>

\* S_MonShutdown going on to the signals instead of breaking
S_MonShutdown_Escalates ==
    /\ sup_pc = "mon_body"
    /\ sup_shutdown
    /\ stop_file' = TRUE
    /\ esc' = esc \o <<"shutdown", "marker">>
    /\ sup_pc' = "esc_int"
    /\ UNCHANGED <<sup_shutdown, polls, resets, unitVars, unitData, menuVars, joyVars>>

\* "if shutdown_requested: _touch_stop_file(); break"
S_MonShutdown ==
    /\ sup_pc = "mon_body"
    /\ sup_shutdown
    /\ stop_file' = TRUE
    /\ esc' = esc \o <<"shutdown", "marker">>
    /\ sup_pc' = "procwait"
    /\ UNCHANGED <<sup_shutdown, polls, resets, unitVars, unitData, menuVars, joyVars>>

\* no key, no 'stop' event: time.sleep(0.02) and test again
S_MonIdle ==
    /\ sup_pc = "mon_body"
    /\ ~sup_shutdown
    /\ sup_pc' = "monitor"
    /\ UNCHANGED <<stop_file, sup_shutdown, polls, esc, resets, unitVars, unitData, menuVars, joyVars>>

\* "if ch2 is not None or evt2 == 'stop': _touch_stop_file()"
S_MonCancel ==
    /\ sup_pc = "mon_body"
    /\ ~sup_shutdown
    /\ stop_file' = TRUE
    /\ esc' = esc \o <<"cancel", "marker">>
    /\ sup_pc' = "esc_int"
    /\ UNCHANGED <<sup_shutdown, polls, resets, unitVars, unitData, menuVars, joyVars>>

\* proc.send_signal(signal.SIGINT)
S_SendInt ==
    /\ sup_pc = "esc_int"
    /\ DeliverSignal
    /\ esc' = Append(esc, "int")
    /\ sup_pc' = "esc_term"
    /\ UNCHANGED <<stop_file, sup_shutdown, polls, resets, ser, f_open, rser, ulog,
                   cancelAge, unitData, menuVars, joyVars>>

\* proc.terminate()
S_Terminate ==
    /\ sup_pc = "esc_term"
    /\ DeliverSignal
    /\ esc' = Append(esc, "term")
    /\ polls' = 0
    /\ sup_pc' = "esc_wait"
    /\ UNCHANGED <<stop_file, sup_shutdown, resets, ser, f_open, rser, ulog,
                   cancelAge, unitData, menuVars, joyVars>>

\* one iteration of "for _ in range(50): if proc.poll() is not None: break;
\* time.sleep(0.02)"
S_EscPoll ==
    /\ sup_pc = "esc_wait"
    /\ IF ProcExited
       THEN /\ sup_pc' = "esc_check"
            /\ UNCHANGED polls
       ELSE /\ polls' = polls + 1
            /\ sup_pc' = IF polls + 1 = EscalationPolls THEN "esc_check" ELSE "esc_wait"
    /\ UNCHANGED <<stop_file, sup_shutdown, esc, resets, unitVars, unitData, menuVars, joyVars>>

\* S_EscCheck with the kill sent without looking at proc.poll()
S_EscCheck_KillAlways ==
    /\ sup_pc = "esc_check"
    /\ DeliverKill
    /\ esc' = Append(esc, "kill")
    /\ sup_pc' = "procwait"
    /\ UNCHANGED <<stop_file, sup_shutdown, polls, resets, unit_shutdown, ulog,
                   cancelAge, unitData, menuVars, joyVars>>

\* "if proc.poll() is None: proc.kill()"
S_EscCheck ==
    /\ sup_pc = "esc_check"
    /\ IF ProcExited
       THEN UNCHANGED <<u_pc, ser, f_open, rser, esc>>
       ELSE /\ DeliverKill
            /\ esc' = Append(esc, "kill")
    /\ sup_pc' = "procwait"
    /\ UNCHANGED <<stop_file, sup_shutdown, polls, resets, unit_shutdown, ulog,
                   cancelAge, unitData, menuVars, joyVars>>

\* S_ProcWaitDone taken whether or not the unit has exited
S_ProcWaitDone_NoTest ==
    /\ sup_pc = "procwait"
    /\ sup_pc' = "cleanup"
    /\ UNCHANGED <<stop_file, sup_shutdown, polls, esc, resets, unitVars, unitData, menuVars, joyVars>>

\* proc.wait(timeout=2) returns: the unit has exited
S_ProcWaitDone ==
    /\ sup_pc = "procwait"
    /\ ProcExited
    /\ sup_pc' = "cleanup"
    /\ UNCHANGED <<stop_file, sup_shutdown, polls, esc, resets, unitVars, unitData, menuVars, joyVars>>

\* S_ProcWaitTimeout with the time-out left out of proc.wait(): the wait
\* goes on while the unit is alive
S_ProcWaitTimeout_Forever ==
    /\ sup_pc = "procwait"
    /\ ~ProcExited
    /\ UNCHANGED vars

\* proc.wait(timeout=2) raises TimeoutExpired: proc.kill()
S_ProcWaitTimeout ==
    /\ sup_pc = "procwait"
    /\ ~ProcExited
    /\ DeliverKill
    /\ esc' = Append(esc, "kill")
    /\ sup_pc' = "cleanup"
    /\ UNCHANGED <<stop_file, sup_shutdown, polls, resets, unit_shutdown, ulog,
                   cancelAge, unitData, menuVars, joyVars>>

\* S_Cleanup with the removal of the stop file left out
S_Cleanup_KeepsMarker ==
    /\ sup_pc = "cleanup"
    /\ Draw(idx, <<>>)
    /\ sup_pc' = "menu"
    /\ UNCHANGED <<stop_file, sup_shutdown, polls, esc, resets, unitVars, unitData,
                   menu_n, idx, setup_input, joyVars>>

\* remove the stop file if it exists, redraw the menu
S_Cleanup ==
    /\ sup_pc = "cleanup"
    /\ stop_file' = FALSE
    /\ Draw(idx, <<>>)                                 \* draw('Select option (w/s + Enter)')
    /\ sup_pc' = "menu"
    /\ UNCHANGED <<sup_shutdown, polls, esc, resets, unitVars, unitData,
                   menu_n, idx, setup_input, joyVars>>

\* SIGINT / SIGTERM arriving at the supervisor (signal_handler); when it is
\* sent to the whole process group the unit receives it too
H_SupSignal ==
    /\ sup_pc \notin {"off", "done"}
    /\ ~sup_shutdown
    /\ sup_shutdown' = TRUE
    /\ \E group \in BOOLEAN :
        IF group
        THEN DeliverSignal
        ELSE UNCHANGED <<u_pc, unit_shutdown>>
    /\ UNCHANGED <<stop_file, sup_pc, polls, esc, resets, ser, f_open, rser, ulog,
                   cancelAge, unitData, menuVars, joyVars>>

SupNext ==
    \/ S_MenuShutdown \/ S_Setup \/ S_Launch \/ S_LaunchErr \/ S_MonTest
    \/ S_MonShutdown \/ S_MonIdle \/ S_SendInt \/ S_Terminate \/ S_EscPoll
    \/ S_EscCheck \/ S_ProcWaitDone \/ S_ProcWaitTimeout \/ S_Cleanup

HumanNext == S_Select \/ S_Quit \/ S_MonCancel \/ H_ButtonB \/ H_SupSignal

\* The supervisor and the replay units it launches.  The navigation of the
\* menu is followed in SpecMenu; here the selection is whatever it was moved
\* to before the recording is chosen.
Init ==
    /\ stop_file = FALSE
    /\ sup_pc = "menu"
    /\ sup_shutdown = FALSE
    /\ polls = 0
    /\ esc = <<>>
    /\ u_pc = "none"
    /\ fileSize = 0
    /\ InitUnitIdle
    /\ menu_n = Len(MenuFiles)
    /\ idx \in 0..(menu_n - 1)                           \* any recording may be the selected one
    /\ current_start_idx = 0
    /\ oled = OledUpdate(menu_n, idx, <<>>, 0)           \* draw('Select option (w/s + Enter)')
    /\ setup_input = "none"
    /\ InitJoyIdle

Next == SupNext \/ UnitNext \/ HumanNext

Spec == Init /\ [][Next]_vars

\* The supervisor's loop and the unit are both running processes: each takes
\* its next step when it has one.  Nothing is assumed about the human (keys,
\* buttons, signals).
FairSpec == Spec /\ WF_vars(SupNext) /\ WF_vars(UnitNext)

(* ---- the reset procedure invoked again and again ---------------------- *)
\* largest number of invocations in a row
MaxResets == 5

\* the caller goes on after the procedure returned and invokes it again
R_Again ==
    /\ u_pc = "returned"
    /\ resets < MaxResets
    /\ u_pc' = "reset_proc"
    /\ UNCHANGED <<stop_file, supVars, resets, unit_shutdown, ser, f_open, rser, ulog,
                   cancelAge, unitData>>

InitReset ==
    /\ stop_file = FALSE
    /\ sup_pc = "off"
    /\ sup_shutdown = FALSE
    /\ polls = 0
    /\ esc = <<>>
    /\ u_pc = "reset_proc"
    /\ fileSize = 0
    /\ InitUnitIdle
    /\ InitNoMenu
    /\ InitJoyIdle

NextReset == U_ResetProc \/ U_ResetClose \/ R_Again

SpecReset == InitReset /\ [][NextReset]_vars

(* ---- the joystick thread and its event queue -------------------------- *)
\* number of button / axis events the input device delivers
MaxRaw == 35

\* everything but the joystick reader
notJoy == <<stop_file, sup_pc, sup_shutdown, polls, esc, resets, unitVars, unitData, menuVars>>

\* the event name the k-th decoded event is put under (what counts for the
\* queue is which event it is, not what it says)
EventName(k) == <<"up", "down", "select", "stop">>[(k % 4) + 1]

\* run(): os.open(self.device_path, ...); on an exception the thread returns
J_Open ==
    /\ j_pc = "off"
    /\ \E ok \in BOOLEAN :
        IF ok
        THEN fd_open' = TRUE /\ j_pc' = "read"
        ELSE fd_open' = FALSE /\ j_pc' = "ended"
    /\ UNCHANGED <<notJoy, events, raw, pending_put, accepted, got>>

\* the read loop: the next event of the device is decoded and _put is called
J_Read ==
    /\ j_pc = "read"
    /\ raw < MaxRaw
    /\ raw' = raw + 1
    /\ pending_put' = EventName(raw + 1)
    /\ j_pc' = "put"
    /\ UNCHANGED <<notJoy, events, fd_open, accepted, got>>

\* J_PutCheck without the test of the queue's size
J_PutCheck_NoLimit ==
    /\ j_pc = "put"
    /\ j_pc' = "put_nowait"
    /\ UNCHANGED <<notJoy, events, fd_open, raw, pending_put, accepted, got>>

\* _put: "if self.events.qsize() < 32:", otherwise the event is dropped
J_PutCheck ==
    /\ j_pc = "put"
    /\ IF Len(events) < QueueLimit
       THEN /\ j_pc' = "put_nowait"
            /\ UNCHANGED pending_put
       ELSE /\ j_pc' = "read"
            /\ pending_put' = "none"
    /\ UNCHANGED <<notJoy, events, fd_open, raw, accepted, got>>

\* _put: self.events.put_nowait(event_name); the queue has no maximum size,
\* so this neither waits nor raises
J_PutNowait ==
    /\ j_pc = "put_nowait"
    /\ events' = Append(events, pending_put)
    /\ accepted' = Append(accepted, pending_put)
    /\ pending_put' = "none"
    /\ j_pc' = "read"
    /\ UNCHANGED <<notJoy, fd_open, raw, got>>

\* the read loop ends (stop_event is set, or os.read raised): os.close(self.fd)
J_Close ==
    /\ j_pc = "read"
    /\ fd_open' = FALSE
    /\ j_pc' = "ended"
    /\ UNCHANGED <<notJoy, events, raw, pending_put, accepted, got>>

\* get_event(): self.events.get_nowait(), None when the queue is empty
Q_GetEvent ==
    /\ IF events = <<>>
       THEN UNCHANGED <<events, got>>
       ELSE /\ got' = Append(got, Head(events))
            /\ events' = Tail(events)
    /\ UNCHANGED <<notJoy, fd_open, j_pc, raw, pending_put, accepted>>

InitQueue ==
    /\ stop_file = FALSE
    /\ sup_pc = "menu"
    /\ sup_shutdown = FALSE
    /\ polls = 0
    /\ esc = <<>>
    /\ u_pc = "none"
    /\ fileSize = 0
    /\ InitUnitIdle
    /\ InitNoMenu
    /\ InitJoyIdle

NextQueue == J_Open \/ J_Read \/ J_PutCheck \/ J_PutNowait \/ J_Close \/ Q_GetEvent

SpecQueue == InitQueue /\ [][NextQueue]_vars

(* ---- the menu on its own: navigation and paging ----------------------- *)
\* largest number of recordings listed in the menu
MaxItems == 20

InitMenu ==
    /\ stop_file = FALSE
    /\ sup_pc = "menu"
    /\ sup_shutdown = FALSE
    /\ polls = 0
    /\ esc = <<>>
    /\ u_pc = "none"
    /\ fileSize = 0
    /\ InitUnitIdle
    /\ menu_n \in 0..MaxItems
    /\ idx = 0
    /\ current_start_idx = 0
    /\ oled = OledUpdate(menu_n, 0, <<>>, 0)             \* draw('Select option (w/s + Enter)')
    /\ setup_input = "none"
    /\ InitJoyIdle

NextMenu == S_NavUp \/ S_NavDown \/ S_Select

SpecMenu == InitMenu /\ [][NextMenu]_vars

(* ======================================================================= *)
(* Properties                                                              *)
(* ======================================================================= *)

\* C1: once the cancellation signal is set during Streaming, by the shutdown
\* flag or by the stop file alone, the engine ends the session as
\* Interrupted within one polling interval whatever the device does: the
\* streaming loop never completes more than PollInterval reads, without
\* ending as Interrupted, while a cancellation is pending.
C1_CancelWithinInterval == cancelAge <= PollInterval

\* C2: when the supervisor is back at the menu after an attempt that
\* launched a unit, DeviceResetProcedure has been invoked exactly once for
\* that attempt (counted over both processes), however the session ended
\* (stated for the units that got as far as run_playback).
C2_ResetExactlyOnce ==
    (sup_pc = "menu" /\ ProcExited /\ (outcome # "none" \/ ulog # <<>>)) => resets = 1

\* C3: the microcontroller is never left mid-sequence: when the supervisor
\* is back at the menu after an attempt in which the start record was
\* written, the last byte written to the device is a reset command.
C3_NeverLeftMidSequence ==
    (sup_pc = "menu" /\ \E i \in DOMAIN Wire : Wire[i].data = StartRecord)
        => Wire[Len(Wire)].data = <<ResetByte>>

\* C4: when run_playback returns, in whatever terminal state, the device
\* channel it opened and the recording it opened are closed.
C4_ClosedOnReturn == (u_pc = "returned") => (~ser /\ ~f_open)

IsPrefix(s, t) == Len(s) <= Len(t) /\ SubSeq(t, 1, Len(s)) = s
HasEv(e) == \E i \in DOMAIN ulog : ulog[i].ev = e
\* position in ulog of the first event e (0 when there is none)
PosEv(e) == IF HasEv(e) THEN CHOOSE i \in DOMAIN ulog :
                                 /\ ulog[i].ev = e
                                 /\ \A j \in 1..(i - 1) : ulog[j].ev # e
            ELSE 0

HumanPath == <<"cancel", "marker", "int", "term", "kill">>

\* C6: on a human cancellation the supervisor writes the marker, sends the
\* interrupt, requests termination, waits at most 50 polls and force-kills
\* only when that wait ran out with the unit still alive; no step is
\* skipped or reordered and an exited unit is not killed.
C6_EscalationOrder ==
    (esc # <<>> /\ esc[1] = "cancel") =>
        /\ IsPrefix(esc, HumanPath)
        /\ polls <= EscalationPolls
        /\ sup_pc = "esc_int" => Len(esc) = 2
        /\ sup_pc = "esc_term" => Len(esc) = 3
        /\ sup_pc \in {"esc_wait", "esc_check"} => Len(esc) = 4
        /\ sup_pc \in {"esc_wait", "esc_check", "procwait", "cleanup", "menu"} => Len(esc) >= 4
        /\ Len(esc) = 5 => polls = EscalationPolls
        /\ sup_pc \in {"procwait", "cleanup", "menu"} => ProcExited

C6_Witness == esc = HumanPath /\ sup_pc = "menu"

C8_EveryAttemptEnds == (u_pc = "boot") ~> (sup_pc = "menu" /\ ProcExited)

\* C8 (amended): the waits that are capped are the silent device reads
\* (more than 10 in a row end the streaming), the escalation wait (50
\* polls) and the process wait (ends in a kill): once the supervisor has
\* left the monitoring loop it is back at the menu with the unit gone.
C8_CancelledAttemptEnds ==
    /\ [](timeout_count <= TimeoutLimit + 1 /\ polls <= EscalationPolls)
    /\ (sup_pc \in {"esc_int", "procwait"}) ~> (sup_pc = "menu" /\ ProcExited)

C8_Witness == sup_pc = "menu" /\ esc = <<"shutdown", "marker", "kill">> /\ HasEv("summary")

PreStream ==
    << Ev("open_ser", <<>>), Ev("write", <<PingByte>>), Ev("pong", <<PingByte>>),
       Ev("open_f", <<>>), Ev("write", <<ResetByte>>), Ev("write", StartRecord) >>

\* the last event of the streaming phase
StreamEnd ==
    IF HasEv("stopped") THEN PosEv("stopped") - 1
    ELSE IF HasEv("summary") THEN PosEv("summary") - 1 ELSE Len(ulog)

\* C9: the probe is the first write; the reset command and then the start
\* record are written once each, after the acknowledgement and the opening
\* of the recording; from then until streaming ends the writes are input
\* records, one after each 0x0F request and none without a request.
C9_WireOrder ==
    /\ \A i \in 1..Min(Len(ulog), Len(PreStream)) : i # 3 => ulog[i] = PreStream[i]
    /\ Len(ulog) >= 4 => ulog[3] = PreStream[3]
    /\ \A i \in (Len(PreStream) + 1)..StreamEnd :
          IF (i - Len(PreStream)) % 2 = 1
          THEN ulog[i] = Ev("req", <<RequestByte>>)
          ELSE /\ ulog[i].ev = "write"
               /\ Len(ulog[i].data) = ChunkSize + 1
               /\ ulog[i].data[1] = RequestByte

\* two requests answered, the third met the end of the recording
C9_Witness == outcome = "Completed" /\ latches = 2 * LatchesPerRequest /\ u_pc = "returned"

\* C10: a handshake answer other than 0xFF, or none, ends the session at
\* once as DeviceNotReady; the recording is never opened or read and only
\* the probe byte is written to the device.
C10_HandshakeFailure ==
    /\ (Len(ulog) >= 3 /\ ulog[3].data # <<PingByte>>) => outcome = "DeviceNotReady"
    /\ outcome = "DeviceNotReady" =>
          /\ u_pc \in {"returned", "exited"}
          /\ Len(ulog) = 3 /\ ulog[3].ev = "pong" /\ ulog[3].data # <<PingByte>>
          /\ Wire = <<Ev("write", <<PingByte>>)>>
          /\ ~f_open /\ cursor = 0 /\ ~HasEv("open_f")

C10_Witness == outcome = "DeviceNotReady" /\ u_pc = "exited" /\ ulog[3].data = <<0>>

\* C11: when the recording cannot be opened after a successful handshake
\* the session ends as FileError with nothing but the probe written to the
\* device: no reset command, no start record, no input record, and the
\* streaming loop is never entered (no request is read, no latch counted).
C11_FileErrorBeforeCommands ==
    outcome = "FileError" =>
        /\ u_pc \in {"returned", "exited"}
        /\ Len(ulog) >= 3 /\ ulog[3] = Ev("pong", <<PingByte>>)
        /\ Wire = <<Ev("write", <<PingByte>>)>>
        /\ \A i \in DOMAIN ulog : ulog[i].ev \in {"open_ser", "write", "pong", "open_f"}
        /\ latches = 0 /\ cursor = 0 /\ timeout_count = 0

\* the recording was opened and its size could not be read
C11_Witness == outcome = "FileError" /\ u_pc = "exited" /\ HasEv("open_f")

\* C12: a pass of the streaming loop whose read returned nothing adds one to
\* the time-out counter and a pass whose read returned a byte, 0x0F or
\* another, sets it to zero; the session has ended as DeviceError exactly
\* when the counter is above 10, which is first the case at the 11th
\* time-out in a row.
C12_TimeoutDetection ==
    /\ [](/\ timeout_count <= TimeoutLimit + 1
          /\ outcome = "DeviceError" <=> timeout_count > TimeoutLimit
          /\ Streaming => timeout_count <= TimeoutLimit)
    /\ [][(u_pc = "read" /\ u_pc' \in {"loop", "summary"}) =>
             timeout_count' = IF cmd' = <<>> THEN timeout_count + 1 ELSE 0]_vars

\* given up after a record had been sent
C12_Witness == outcome = "DeviceError" /\ latches = LatchesPerRequest /\ u_pc = "returned"

\* C13: the read cursor never passes the end of the recording, and the
\* session ends as Completed exactly in a pass of the loop that read a 0x0F
\* request with no byte of the recording left to read; that request is
\* logged and nothing is written in answer to it.
C13_CompletedIffEmptyRead ==
    /\ [](/\ cursor <= fileSize
          /\ outcome = "Completed" <=>
                (StreamEnd > Len(PreStream) /\ ulog[StreamEnd].ev = "req"))
    /\ [][(u_pc = "read" /\ u_pc' \in {"loop", "summary"}) =>
             /\ outcome' = "Completed" <=> (cmd' = <<RequestByte>> /\ cursor = fileSize)
             /\ outcome' = "Completed" =>
                   /\ ulog' = Append(ulog, Ev("req", <<RequestByte>>))
                   /\ cursor' = cursor]_vars

\* a full record and a short one were sent before the empty read
C13_Witness == outcome = "Completed" /\ fileSize = ChunkSize + 1 /\ u_pc = "summary"

\* the input records written to the device, in order
IsRecord(e) == e.ev = "write" /\ e.data[1] = RequestByte
Records == SelectSeq(ulog, IsRecord)

\* number of 60-byte pieces of the recording, the last one possibly short
NumChunks == (fileSize + ChunkSize - 1) \div ChunkSize

\* the k-th piece of the recording, filled up with zero bytes
Chunk(k) ==
    [j \in 1..ChunkSize |->
        IF ChunkSize * (k - 1) + j <= fileSize
        THEN MovieByte(ChunkSize * (k - 1) + j)
        ELSE 0]

\* C14: the k-th input record sent carries bytes [60(k-1), 60k) of the
\* recording, zero-filled only past its end; no more than ceil(N/60)
\* records are sent, and when the session has ended as Completed exactly
\* ceil(N/60) were sent and latches is 30 * ceil(N/60).
C14_StreamFidelity ==
    /\ Len(Records) <= NumChunks
    /\ \A k \in 1..Len(Records) : Records[k].data = <<RequestByte>> \o Chunk(k)
    /\ outcome = "Completed" =>
          /\ Len(Records) = NumChunks
          /\ latches = LatchesPerRequest * NumChunks

\* 120 bytes: two exchanges, then Completed with 60 latches
C14_Witness ==
    /\ outcome = "Completed" /\ fileSize = 2 * ChunkSize /\ Len(Records) = 2
    /\ latches = 2 * LatchesPerRequest /\ u_pc = "exited"

\* C15: every input record written to the device is 61 bytes long, the
\* opcode 0x0F and 60 payload bytes; the payload starts with at least one
\* byte of the recording and its zero bytes, if any, come after all of
\* them and run to the end (the bytes of the recording are never zero).
C15_RecordShape ==
    \A k \in 1..Len(Records) :
        LET d == Records[k].data IN
        /\ Len(d) = ChunkSize + 1
        /\ d[1] = RequestByte
        /\ d[2] # 0
        /\ \A j \in 2..(ChunkSize + 1) : d[j] = 0 => \A i \in j..(ChunkSize + 1) : d[i] = 0

\* one byte of the recording was left for the second record
C15_Witness ==
    /\ fileSize = ChunkSize + 1 /\ Len(Records) = 2
    /\ Records[2].data[2] # 0 /\ Records[2].data[3] = 0

\* C16: latches is 0 until a record is sent, grows by 30 in a pass of the
\* loop that read a 0x0F request and answered it with a record, and is
\* left as it is by every other step (time-out, unexpected byte, the
\* request that meets the end of the recording, the stop-file check); it
\* never decreases and is always 30 times the number of records sent.
C16_LatchesCountRecords ==
    /\ [](latches = LatchesPerRequest * Len(Records))
    /\ [][/\ latches' >= latches
          /\ latches' # latches =>
                /\ u_pc = "read" /\ cmd' = <<RequestByte>>
                /\ latches' = latches + LatchesPerRequest
                /\ Len(ulog') = Len(ulog) + 2
                /\ ulog'[Len(ulog')].ev = "write"]_vars

\* three records sent, then an unexpected byte was read
C16_Witness ==
    /\ latches = 3 * LatchesPerRequest /\ u_pc = "loop"
    /\ cmd # <<>> /\ cmd # <<RequestByte>>

\* C17: a pass of the streaming loop that read a byte other than 0x0F
\* writes nothing to the device, reads nothing from the recording and
\* leaves latches, the recording and the device channel as they were; the
\* session goes on streaming, unless a cancellation was already pending in
\* that pass (the shutdown flag set, or the stop file present when latches
\* is a multiple of 100), which then ends it as Interrupted; it never ends
\* as Completed or DeviceError in such a pass.
C17_UnexpectedByteTolerated ==
    [][(/\ u_pc = "read" /\ u_pc' \in {"loop", "summary"}
        /\ cmd' # <<>> /\ cmd' # <<RequestByte>>) =>
          /\ ulog' = ulog /\ cursor' = cursor /\ latches' = latches
          /\ ser' = ser /\ f_open' = f_open
          /\ IF unit_shutdown \/ (stop_file /\ latches % StopCheckEvery = 0)
             THEN u_pc' = "summary" /\ outcome' = "Interrupted"
             ELSE u_pc' = "loop" /\ outcome' = outcome /\ outcome' = "none"]_vars

\* an unexpected byte was read between two records and streaming goes on
C17_Witness ==
    /\ u_pc = "loop" /\ cmd \in {<<b>> : b \in UnexpectedBytes}
    /\ latches = LatchesPerRequest
    /\ outcome = "none" /\ ~unit_shutdown /\ stop_file

\* C18: when the session was given up for silence of the device, the report
\* gives as bytes remaining the length of the recording minus the position
\* of the read cursor at that moment, the summary gives half of that as
\* frames remaining, and neither moves the read cursor.
C18_RemainingReported ==
    HasEv("stopped") =>
        LET stopped   == ulog[PosEv("stopped")].data
            position  == stopped[1]
            size      == stopped[2]
            remaining == stopped[3]
        IN
        /\ size = fileSize
        /\ remaining = size - position
        /\ cursor = position
        /\ HasEv("summary") => ulog[PosEv("summary")].data[3] = (size - position) \div 2

\* C19: the stop file exists only between the moment the supervisor wrote
\* it for the running attempt and the clean-up of that attempt: there is
\* none when the supervisor is at the menu, on the setup screen, about to
\* launch or just after a launch, and none is left when it has quit.
C19_MarkerHygiene ==
    /\ sup_pc \in {"menu", "setup", "launch", "launch_err", "done"} => ~stop_file
    /\ sup_pc = "menu" => ~UnitAlive
    /\ stop_file =>
          /\ \E i \in DOMAIN esc : esc[i] = "marker"
          /\ sup_pc \in {"esc_int", "esc_term", "esc_wait", "esc_check", "procwait", "cleanup"}

\* back at the menu after an attempt whose marker the unit never took up
C19_Witness ==
    /\ sup_pc = "menu" /\ u_pc = "killed" /\ ~unit_shutdown
    /\ Len(esc) >= 2 /\ esc[2] = "marker"

\* C20: the engine's handle to the device and the handle of the reset
\* procedure are never open together: the reset procedure opens its own
\* only after the engine closed its handle, and the supervisor runs the
\* reset procedure only when no unit was started, so while no unit is alive
\* and no handle is open.
C20_ExclusiveChannel ==
    /\ ~(ser /\ rser)
    /\ rser => (UnitAlive /\ HasEv("close_ser") /\ PosEv("close_ser") < PosEv("reset_open"))
    /\ (ser \/ rser) => UnitAlive
    /\ sup_pc = "launch_err" => (~UnitAlive /\ ~ser /\ ~rser)
    /\ (\E i \in DOMAIN esc : esc[i] \in {"reset", "reset_failed"}) => u_pc = "none"

\* the reset procedure holds the channel at the end of a cancelled session
C20_Witness ==
    /\ rser /\ ~ser /\ u_pc = "reset_close" /\ outcome = "Interrupted"
    /\ sup_pc = "esc_wait"

\* C21: when the unit cannot be started the supervisor has no unit to
\* monitor or signal: it writes no marker, sends nothing, invokes the
\* device reset once, whatever its result, redraws the menu and is back in
\* the menu loop with the same item selected.
C21_LaunchFailure ==
    /\ [](sup_pc = "launch_err" =>
             /\ u_pc = "none" /\ esc = <<>> /\ resets = 0
             /\ ~stop_file /\ ~ser /\ ~rser /\ ulog = <<>>)
    /\ []((esc # <<>> /\ esc[1] \in {"reset", "reset_failed"}) =>
             /\ Len(esc) = 1 /\ resets = 1 /\ polls = 0
             /\ u_pc = "none" /\ ulog = <<>> /\ ~stop_file
             /\ sup_pc \in {"menu", "setup", "launch", "done"})
    /\ [][(sup_pc \in {"launch", "launch_err"} => (idx' = idx /\ menu_n' = menu_n))
          /\ ((sup_pc = "launch_err" /\ sup_pc' # sup_pc) =>
                 (sup_pc' = "menu" /\ oled' = Oled("full", idx, current_start_idx)))]_vars

\* back at the menu on the last recording after a failed launch and a failed reset
C21_Witness ==
    /\ sup_pc = "menu" /\ esc = <<"reset_failed">> /\ idx = Len(MenuFiles) - 1
    /\ ~sup_shutdown

\* the events of the reset procedure's invocations, in order
IsResetEv(e) == e.ev \in {"reset_open", "write", "reset_close", "reset_failed"}
ResetLog == SelectSeq(ulog, IsResetEv)

\* C22: every invocation of the reset procedure either opens the channel,
\* writes the one byte 0x00 and closes it, or fails on the open or on the
\* write, writes nothing and returns to its caller, who goes on; so every
\* successful invocation sends the same single byte, however many came
\* before it, and no invocation ends the caller.
C22_ResetIdempotent ==
    /\ u_pc \in {"reset_proc", "reset_close", "returned"}
    /\ \A i \in DOMAIN ResetLog :
          LET e == ResetLog[i]
              prev == IF i = 1 THEN "reset_close" ELSE ResetLog[i - 1].ev
          IN
          CASE e.ev = "reset_open"   -> prev \in {"reset_close", "reset_failed"}
            [] e.ev = "write"        -> prev = "reset_open" /\ e.data = <<ResetByte>>
            [] e.ev = "reset_close"  -> prev = "write"
            [] e.ev = "reset_failed" -> prev \in {"reset_open", "reset_close", "reset_failed"}
    /\ rser <=> u_pc = "reset_close"
    /\ u_pc = "returned" =>
          /\ resets >= 1
          /\ ResetLog[Len(ResetLog)].ev \in {"reset_close", "reset_failed"}
          /\ Len(Wire) <= resets

\* a failed write, a failed open and then two successful invocations
C22_Witness ==
    /\ u_pc = "returned" /\ resets = 4 /\ Len(Wire) = 2
    /\ ResetLog[1].ev = "reset_open" /\ ResetLog[2].ev = "reset_failed"
    /\ ResetLog[3].ev = "reset_failed"

\* C23: on the setup screen a cancel input (B / 'stop', or q) takes the
\* supervisor back to the menu without a launch: the launch is reached
\* only after a confirm input (A / 'select', or Enter).
C23_LaunchOnlyOnConfirm ==
    /\ sup_pc = "launch" => setup_input = "confirm"
    /\ setup_input = "cancel" => sup_pc = "menu"

\* C24: with a non-empty list the selected item is inside the window of the
\* display after every navigation step, wrap-arounds included:
\* current_start_idx <= idx < current_start_idx + 8.
C24_WindowInvariant ==
    menu_n > 0 => (current_start_idx <= idx /\ idx < current_start_idx + WindowSize)

\* wrapped from the first item to the last one of the longest list
C24_Witness ==
    /\ menu_n = MaxItems /\ idx = menu_n - 1
    /\ oled = Oled("full", menu_n - 1, menu_n - WindowSize)

\* a step of the menu loop that handled an up or a down
NavStep == sup_pc = "menu" /\ sup_pc' = "menu" /\ menu_n > 0 /\ <<idx, oled>>' # <<idx, oled>>

C26_PageStability ==
    /\ [](/\ 0 <= current_start_idx
          /\ current_start_idx <= Max(0, menu_n - 8)
          /\ menu_n = 20 => current_start_idx <= 12)
    /\ [][NavStep =>
            /\ (current_start_idx' # current_start_idx) =>
                  (idx' < current_start_idx \/ idx' >= current_start_idx + 8)
            /\ (current_start_idx = 0 /\ idx' <= 7) => current_start_idx' = 0
         ]_vars

\* 20 items, moved down from the top to item 15: the window went from 0 to
\* 7 and then to the last page
C26_Witness ==
    menu_n = 20 /\ idx = 15 /\ current_start_idx = 12 /\ oled = Oled("full", 15, 12)

\* C27: with n > 0 items an up takes the selection to (idx - 1) mod n and a
\* down to (idx + 1) mod n, so the selection is always one of the items;
\* with no items the selection and the display stay as they are whatever
\* is pressed, and a confirm does not leave the menu: nothing is selected
\* and nothing launched.
C27_Navigation ==
    /\ [](/\ menu_n > 0 => (0 <= idx /\ idx < menu_n)
          /\ menu_n = 0 =>
                /\ idx = 0 /\ current_start_idx = 0 /\ oled = StatusScreen
                /\ sup_pc = "menu" /\ u_pc = "none" /\ setup_input = "none"
          /\ sup_pc = "setup" => (menu_n > 0 /\ oled = StatusScreen))
    /\ [][(sup_pc = "menu" /\ idx' # idx) =>
            /\ sup_pc' = "menu"
            /\ idx' \in { IF idx = 0 THEN menu_n - 1 ELSE idx - 1,
                          IF idx = menu_n - 1 THEN 0 ELSE idx + 1 }
         ]_vars

\* three items: an up from the first item went to the last one
C27_Witness ==
    menu_n = 3 /\ idx = 2 /\ oled = Oled("marker", 1, 3) /\ sup_pc = "menu"

\* C28: the queue never holds more than 32 events; an event that finds it
\* full is dropped and leaves the queued events as they are; the thread
\* that puts never has to wait (there is room whenever it puts); every
\* poll takes at most one event, and the events polled followed by the
\* events still queued are the events put, in the order they were put;
\* nothing is ever polled when the device could not be opened.
C28_EventQueue ==
    /\ [](/\ Len(events) <= QueueLimit
          /\ j_pc = "put_nowait" => Len(events) < QueueLimit
          /\ accepted = got \o events
          /\ raw = 0 => (events = <<>> /\ got = <<>>)
          /\ (j_pc = "ended" /\ raw = 0) => accepted = <<>>)
    /\ [][/\ (j_pc = "put" /\ j_pc' # "put" /\ Len(events) >= QueueLimit) =>
                (events' = events /\ accepted' = accepted /\ j_pc' = "read")
          /\ Len(got') <= Len(got) + 1
          /\ (got' # got) => (got' = Append(got, Head(events)) /\ events' = Tail(events))
         ]_vars

\* an event was dropped at a full queue, then one was polled and the next
\* one was put
C28_Witness ==
    /\ raw = QueueLimit + 2 /\ Len(accepted) = QueueLimit + 1 /\ Len(got) = 1
    /\ Len(events) = QueueLimit /\ j_pc = "read"

\* C29: while streaming, the marker file is checked at least once for
\* every 100 latches by which the frame counter advances: the counter is
\* never a whole interval and a whole step past the value it had at the
\* last check (or at the start of streaming).
C29_MarkerPolling ==
    Streaming => latches - checkedAt < StopCheckEvery + LatchesPerRequest

\* C30: a marker the supervisor wrote for the unit it launched is never
\* gone while that unit runs on without a cancellation request of its own
\* (the unit's removal of the marker at start-up does not swallow it),
\* once the supervisor is past the interrupt it may send along with the
\* marker; and a unit that died of an interrupt, not of a kill, had not
\* opened the device.
C30_NoLostCancellation ==
    /\ ((\E i \in DOMAIN esc : esc[i] = "marker") /\ ~stop_file /\ UnitAlive
            /\ sup_pc # "esc_int")
          => unit_shutdown
    /\ (u_pc = "killed" /\ \A i \in DOMAIN esc : esc[i] # "kill")
          => ~HasEv("open_ser")

\* C31: at most one replay unit is alive at any time: while the supervisor
\* is at the menu, the setup screen or a launch, no unit it launched is
\* still running (each has exited or has been killed), and a unit is only
\* ever started when none is running.
C31_OneUnitAlive ==
    /\ [](sup_pc \in {"menu", "setup", "launch", "launch_err", "cleanup", "done"}
            => ~UnitAlive)
    /\ [][(u_pc' = "boot" /\ u_pc # "boot") => ~UnitAlive]_vars

\* back at the menu after a cancellation that ended with a kill
C31_Witness ==
    /\ sup_pc = "menu" /\ u_pc = "killed"
    /\ Len(esc) > 0 /\ esc[1] = "cancel" /\ esc[Len(esc)] = "kill"

\* C32: the residual-offset counter is 0 throughout, so the branch that
\* reads less than a chunk and pads at the front is never taken: every
\* pass that advances the frame counter advances it by 30, has asked the
\* recording for a whole chunk of 60 bytes from the cursor, and has
\* written those bytes, padded at the back only.
C32_NoResidual ==
    /\ [](extra = 0)
    /\ [][(u_pc = "read" /\ latches' # latches) =>
            (/\ latches' = latches + LatchesPerRequest
             /\ cursor' = Min(cursor + ChunkSize, fileSize)
             /\ ulog'[Len(ulog')] =
                  Ev("write", <<RequestByte>> \o
                       [i \in 1..ChunkSize |->
                          IF cursor + i <= fileSize THEN MovieByte(cursor + i) ELSE 0]))
         ]_vars

\* a full chunk and then a short last chunk have been served
C32_Witness ==
    /\ Streaming /\ fileSize = ChunkSize + 1 /\ cursor = fileSize
    /\ latches = 2 * LatchesPerRequest /\ extra = 0

====
